---- MODULE Spec2Model ----
(***************************************************************************)
(* Odin-Docgen (src/doc_gen.py): extraction of documentation records from  *)
(* Odin source text, and generation of the HTML site (one page per         *)
(* documented file, a sidebar tree, an index page) by a directory walk.    *)
(*                                                                         *)
(* A text is a sequence of characters.  The literals "proc", "@param" and  *)
(* "@return" are single atoms of the alphabet; every other element is one  *)
(* character.  A path is a sequence of path components.                    *)
(***************************************************************************)
EXTENDS Integers, Sequences, FiniteSets, TLC

VARIABLES
    \* extract_docs, one finditer iteration per step
    code,           \* the text handed to extract_docs
    pos,            \* where the next regex search starts (1-based)
    full_comment,   \* match.group(2).strip() of the latest match
    docs,           \* the list of records built so far
    epc,            \* "scan" while finditer runs, "done" after return
    \* generate_docs_for_dir
    kind,           \* per source file: what reading and extracting yields
    ignore,         \* the --ignore arguments (paths relative to src_dir)
    run,            \* number of the current run of the generator
    pc,             \* "walk", "done" or "crashed" (uncaught exception)
    stack,          \* os.walk: directories still to be listed
    root,           \* os.walk: directory whose files are being iterated
    files,          \* files of root not yet iterated
    visited,        \* directories os.walk has listed in this run
    docs_dict,      \* the sidebar tree
    out,            \* the output directory: path -> page content
    stdout,         \* the lines printed so far in this run
    firstOut        \* content of the output directory of the previous run

evars == <<code, pos, full_comment, docs, epc>>
rvars == <<kind, ignore, run, pc, stack, root, files, visited, docs_dict, out,
           stdout, firstOut>>
vars == <<code, pos, full_comment, docs, epc, kind, ignore, run, pc, stack,
          root, files, visited, docs_dict, out, stdout, firstOut>>

----------------------------------------------------------------------------
(* Bounds *)

MaxLines == 3   \* lines of a generated comment body
MaxSegs == 4    \* segments of a generated source text
MaxRuns == 2    \* runs of the generator over the same tree

----------------------------------------------------------------------------
(* Strings *)

Space == {" ", "\n"}
WordChars == {"proc", "f", "g", "a", "b", "x", "y", "i", "r", "q", "d", "A", "B"}
Decoration == {" ", "*"}

RECURSIVE SkipWhile(_, _, _)
SkipWhile(s, i, C) ==
    IF i <= Len(s) /\ s[i] \in C THEN SkipWhile(s, i + 1, C) ELSE i

RECURSIVE SkipUntil(_, _, _)
SkipUntil(s, i, C) ==
    IF i <= Len(s) /\ s[i] \notin C THEN SkipUntil(s, i + 1, C) ELSE i

RECURSIVE rstrip(_, _)
rstrip(s, C) ==
    IF s # <<>> /\ s[Len(s)] \in C THEN rstrip(SubSeq(s, 1, Len(s) - 1), C) ELSE s

strip(s, C) == rstrip(SubSeq(s, SkipWhile(s, 1, C), Len(s)), C)

RECURSIVE splitlines(_)
splitlines(s) ==
    IF s = <<>> THEN <<>>
    ELSE LET n == SkipUntil(s, 1, {"\n"})
         IN  <<SubSeq(s, 1, n - 1)>> \o splitlines(SubSeq(s, n + 1, Len(s)))

\* line.split(None, 2): at most three whitespace-delimited parts, the third
\* being the rest of the line
split(line) ==
    LET a0 == SkipWhile(line, 1, Space)
        a1 == SkipUntil(line, a0, Space)
        b0 == SkipWhile(line, a1, Space)
        b1 == SkipUntil(line, b0, Space)
        c0 == SkipWhile(line, b1, Space)
    IN  IF a0 > Len(line) THEN <<>>
        ELSE IF b0 > Len(line) THEN <<SubSeq(line, a0, a1 - 1)>>
        ELSE IF c0 > Len(line) THEN <<SubSeq(line, a0, a1 - 1), SubSeq(line, b0, b1 - 1)>>
        ELSE <<SubSeq(line, a0, a1 - 1), SubSeq(line, b0, b1 - 1),
               SubSeq(line, c0, Len(line))>>

RECURSIVE join(_, _)
join(sep, ss) ==
    IF ss = <<>> THEN <<>>
    ELSE IF Len(ss) = 1 THEN ss[1]
    ELSE ss[1] \o sep \o join(sep, Tail(ss))

startswith(line, atom) == line # <<>> /\ line[1] = atom

----------------------------------------------------------------------------
(* extract_docs: the regular expression *)

At(s, i, c) == i <= Len(s) /\ s[i] = c

NoMatch == [ok |-> FALSE]

\* \s*([\w\d_]+)\s*::\s*proc\s*(\([^\)]*\)(?:\s*->\s*[\w\d_]+)?) tried at i
MatchDecl(s, i) ==
    LET n0 == SkipWhile(s, i, Space)
        n1 == SkipWhile(s, n0, WordChars)
        c0 == SkipWhile(s, n1, Space)
        p0 == SkipWhile(s, c0 + 2, Space)
        l0 == SkipWhile(s, p0 + 1, Space)
        r0 == SkipUntil(s, l0 + 1, {")"})
        a0 == SkipWhile(s, r0 + 1, Space)
        t0 == SkipWhile(s, a0 + 2, Space)
        t1 == SkipWhile(s, t0, WordChars)
        arrow == At(s, a0, "-") /\ At(s, a0 + 1, ">") /\ t1 > t0
    IN  IF /\ n1 > n0
           /\ At(s, c0, ":") /\ At(s, c0 + 1, ":")
           /\ At(s, p0, "proc")
           /\ At(s, l0, "(")
           /\ At(s, r0, ")")
        THEN [ok |-> TRUE, name |-> SubSeq(s, n0, n1 - 1),
              sig |-> SubSeq(s, l0, IF arrow THEN t1 - 1 ELSE r0),
              end |-> IF arrow THEN t1 ELSE r0 + 1]
        ELSE NoMatch

\* (/\*([\s\S]*?)\*/) opened at i: the lazy body ends at the first */ from j
\* on after which the declaration matches
RECURSIVE MatchComment(_, _, _)
MatchComment(s, i, j) ==
    IF j + 1 > Len(s) THEN NoMatch
    ELSE IF s[j] = "*" /\ s[j + 1] = "/" /\ MatchDecl(s, j + 2).ok
         THEN [ok |-> TRUE, body |-> SubSeq(s, i + 2, j - 1),
               name |-> MatchDecl(s, j + 2).name,
               sig |-> MatchDecl(s, j + 2).sig,
               end |-> MatchDecl(s, j + 2).end]
         ELSE MatchComment(s, i, j + 1)

\* pattern.search(code, p): the leftmost position at which the pattern matches
RECURSIVE search(_, _)
search(s, p) ==
    IF p + 1 > Len(s) THEN NoMatch
    ELSE IF s[p] = "/" /\ s[p + 1] = "*" /\ MatchComment(s, p, p + 2).ok
         THEN MatchComment(s, p, p + 2)
         ELSE search(s, p + 1)

----------------------------------------------------------------------------
(* extract_docs: the tags of one comment *)

Tags0 == [description |-> <<>>, params |-> <<>>, return |-> <<>>]

\* the loop body, were it to keep only the first entry of each parameter name
TagLineDedup(acc, line) ==
    IF startswith(line, "@param")
    THEN LET parts == split(line)
             entry == IF Len(parts) = 3 THEN <<parts[2], parts[3]>> ELSE <<line, <<>>>>
         IN  IF \E k \in 1..Len(acc.params) : acc.params[k][1] = entry[1]
             THEN acc
             ELSE [acc EXCEPT !.params = Append(@, entry)]
    ELSE IF startswith(line, "@return")
    THEN [acc EXCEPT !.return = strip(Tail(line), Space)]
    ELSE [acc EXCEPT !.description = Append(@, line)]

\* the body of the loop over the lines of a comment
TagLine(acc, line) ==
    IF startswith(line, "@param")
    THEN LET parts == split(line)
         IN  IF Len(parts) = 3
             THEN [acc EXCEPT !.params = Append(@, <<parts[2], parts[3]>>)]
             ELSE [acc EXCEPT !.params = Append(@, <<line, <<>>>>)]
    ELSE IF startswith(line, "@return")
    THEN [acc EXCEPT !.return = strip(Tail(line), Space)]
    ELSE [acc EXCEPT !.description = Append(@, line)]

RECURSIVE TagLoop(_, _)
TagLoop(acc, lines) ==
    IF lines = <<>> THEN acc ELSE TagLoop(TagLine(acc, Head(lines)), Tail(lines))

StripLines(comment) ==
    [k \in 1..Len(splitlines(comment)) |-> strip(splitlines(comment)[k], Decoration)]

\* the record appended for one match
Record(m) ==
    LET t == TagLoop(Tags0, StripLines(strip(m.body, Space)))
    IN  [func |-> strip(m.name, Space),
         description |-> strip(join(<<" ">>, t.description), Space),
         params |-> t.params,
         return |-> t.return,
         signature |-> strip(m.sig, Space)]

RECURSIVE ExtractFrom(_, _)
ExtractFrom(s, p) ==
    IF search(s, p).ok
    THEN <<Record(search(s, p))>> \o ExtractFrom(s, search(s, p).end)
    ELSE <<>>

extract_docs(s) == ExtractFrom(s, 1)

----------------------------------------------------------------------------
(* Source texts handed to extract_docs *)

LinePool ==
    { <<"@param", " ", "a", " ", "x">>,
      <<" ", "*", " ", "@param", " ", "b", " ", "y">>,
      <<"@param", " ", "a">>,
      <<"@param", " ", "a", " ", "x", " ", "y">>,
      <<"@return", " ", "r">>,
      <<"*", " ", "@return", " ", "q">>,
      <<"d">> }

DeclF == <<"f", ":", ":", "proc", "(", ")">>
DeclG == <<"g", " ", ":", ":", " ", "proc", "(", "a", ")", "-", ">", "i">>

SegPool ==
    { <<"/", "*", "A", "*", "/">>,
      <<"/", "*", "B", "*", "/", "\n">>,
      <<"x", ";">>,
      <<"/", "*">>,
      DeclF,
      DeclG }

SeqsUpTo(S, n) == UNION { [1..k -> S] : k \in 1..n }

TagInputs ==
    { <<"/", "*">> \o join(<<"\n">>, ls) \o <<"*", "/", "\n">> \o DeclF :
        ls \in SeqsUpTo(LinePool, MaxLines) }

AttachInputs == { join(<<>>, segs) : segs \in SeqsUpTo(SegPool, MaxSegs) }

----------------------------------------------------------------------------
(* Paths.  A name is a sequence of atoms (<<"a", ".odin">>); a path is a   *)
(* sequence of names.                                                      *)

Dot == <<".">>
DotDot == <<"..">>

\* Path.resolve() where no component is a symbolic link
RECURSIVE Normalize(_, _)
Normalize(acc, p) ==
    IF p = <<>> THEN acc
    ELSE IF Head(p) = Dot THEN Normalize(acc, Tail(p))
    ELSE IF Head(p) = DotDot
         THEN Normalize(IF acc = <<>> THEN acc ELSE SubSeq(acc, 1, Len(acc) - 1), Tail(p))
    ELSE Normalize(Append(acc, Head(p)), Tail(p))

resolve(p) == Normalize(<<>>, p)

is_relative_to(p, other) ==
    Len(other) <= Len(p) /\ SubSeq(p, 1, Len(other)) = other

parent(p) == SubSeq(p, 1, Len(p) - 1)

RECURSIVE CommonLen(_, _)
CommonLen(p, q) ==
    IF p # <<>> /\ q # <<>> /\ Head(p) = Head(q)
    THEN 1 + CommonLen(Tail(p), Tail(q)) ELSE 0

\* os.path.relpath(target, start) of two absolute normalised paths
relpath(target, start) ==
    LET c == CommonLen(target, start)
        rel == [k \in 1..(Len(start) - c) |-> DotDot] \o SubSeq(target, c + 1, Len(target))
    IN  IF rel = <<>> THEN <<Dot>> ELSE rel

endswith(file, suffix) == file # <<>> /\ file[Len(file)] = suffix

\* file.replace(".odin", ".html"): every occurrence is replaced
replace(file) == [k \in 1..Len(file) |-> IF file[k] = ".odin" THEN ".html" ELSE file[k]]

\* html.escape
html_escape(s) ==
    [k \in 1..Len(s) |->
        CASE s[k] = "&" -> "&amp;"
          [] s[k] = "<" -> "&lt;"
          [] s[k] = ">" -> "&gt;"
          [] s[k] = "\"" -> "&quot;"
          [] s[k] = "'" -> "&#x27;"
          [] OTHER -> s[k]]

----------------------------------------------------------------------------
(* The source tree the generator is run on *)

Cwd == << <<"w">> >>
SrcDir == Cwd \o << <<"src">> >>
OutDir == Cwd \o << <<"docs">> >>
IndexPath == OutDir \o << <<"index", ".html">> >>

Build == <<"build">>
Sub == <<"sub">>

\* os.scandir of each directory of the tree: its sub-directories and files
SrcTree ==
    (SrcDir :> [dirs |-> {Build, Sub},
                files |-> {<<"a", ".odin">>, <<"index", ".odin">>, <<"notes", ".txt">>}])
    @@ (SrcDir \o <<Build>> :> [dirs |-> {}, files |-> {<<"b", ".odin">>}])
    @@ (SrcDir \o <<Sub>> :> [dirs |-> {Build}, files |-> {<<"c", ".odin">>}])
    @@ (SrcDir \o <<Sub, Build>> :> [dirs |-> {}, files |-> {<<"d", ".odin">>}])

OdinFiles ==
    UNION { { dir \o <<f>> : f \in { g \in SrcTree[dir].files : endswith(g, ".odin") } } :
            dir \in DOMAIN SrcTree }

\* Python's order of the names of the tree as strings
SortedNames ==
    << <<"a", ".odin">>, <<"b", ".odin">>, <<"build">>, <<"c", ".odin">>,
       <<"d", ".odin">>, <<"index", ".odin">>, <<"notes", ".txt">>, <<"sub">> >>

Rank(n) == CHOOSE k \in 1..Len(SortedNames) : SortedNames[k] = n

\* what a file holds: a documented procedure, no documentation, or bytes
\* that are not UTF-8
Kinds == {"docs", "plain", "binary"}
DocText == <<"/", "*", "d", "\n", "@param", " ", "a", " ", "x", "*", "/", "\n">> \o DeclG
PlainText == <<"/", "*", "A", "*", "/", "x", ";">>
FileText(k) == IF k = "docs" THEN DocText ELSE PlainText

IgnoreArgs == { <<Build>>, <<Sub, Build>>, <<Dot, Sub>> }

----------------------------------------------------------------------------
(* render_tree.  docs_dict is held flat: a function from the key path of   *)
(* each leaf (the names of its folders, then the file name) to the leaf's  *)
(* value; the dict nested at a key path holds the leaves below that path.  *)

Children(d, at) == { k[Len(at) + 1] : k \in { l \in DOMAIN d : Len(l) > Len(at) /\ is_relative_to(l, at) } }

IsDict(d, at) == \E l \in DOMAIN d : Len(l) > Len(at) /\ is_relative_to(l, at)

\* sorted(d.items())
RECURSIVE Sorted(_)
Sorted(S) ==
    IF S = {} THEN <<>>
    ELSE LET m == CHOOSE n \in S : \A o \in S : Rank(n) <= Rank(o)
         IN  <<m>> \o Sorted(S \ {m})

\* has_current, were it to look at the files of the folder itself only
has_current_flat(d, child, current_file_path) ==
    \E key \in Children(d, child) :
        /\ ~IsDict(d, Append(child, key))
        /\ resolve(d[Append(child, key)]) = current_file_path

RECURSIVE has_current(_, _, _)
has_current(d, child, current_file_path) ==
    \E key \in Children(d, child) :
        IF IsDict(d, Append(child, key))
        THEN has_current(d, Append(child, key), current_file_path)
        ELSE resolve(d[Append(child, key)]) = current_file_path

RECURSIVE render_items(_, _, _, _, _)
render_tree(d, current_file_path, parent_path, depth) ==
    render_items(d, resolve(current_file_path), parent_path, depth,
                 Sorted(Children(d, parent_path)))

render_items(d, current_file_path, parent_path, depth, items) ==
    IF items = <<>> THEN <<>>
    ELSE LET k == Head(items)
             at == Append(parent_path, k)
         IN  (IF IsDict(d, at)
              THEN <<[tag |-> "details", depth |-> depth,
                      open |-> has_current(d, at, current_file_path),
                      text |-> html_escape(k)]>>
                   \o render_tree(d, current_file_path, at, depth + 1)
                   \o <<[tag |-> "/details"]>>
              ELSE <<[tag |-> "file", depth |-> depth,
                      current |-> (resolve(d[at]) = current_file_path),
                      href |-> relpath(resolve(d[at]), parent(current_file_path)),
                      text |-> html_escape(k)]>>)
             \o render_items(d, current_file_path, parent_path, depth, Tail(items))

----------------------------------------------------------------------------
(* generate_html *)

Section(r) ==
    [h2 |-> html_escape(r.func),
     pre |-> html_escape(r.func \o <<" ">> \o r.signature),
     p |-> html_escape(r.description),
     params |-> [k \in 1..Len(r.params) |->
                    <<html_escape(r.params[k][1]), html_escape(r.params[k][2])>>],
     return |-> html_escape(r.return)]

generate_html(ds, filename, sidebar_html, current_file_path) ==
    [title |-> filename,
     nav |-> sidebar_html,
     rel_index |-> relpath(IndexPath, parent(current_file_path)),
     sections |-> [k \in 1..Len(ds) |-> Section(ds[k])]]

----------------------------------------------------------------------------
(* extract_docs as a state machine: one step per finditer iteration *)

RunIdle ==
    /\ kind = <<>> /\ ignore = {} /\ run = 0 /\ pc = "idle"
    /\ stack = <<>> /\ root = <<>> /\ files = {} /\ visited = {}
    /\ docs_dict = <<>> /\ out = <<>> /\ stdout = <<>> /\ firstOut = <<>>

InitExtract ==
    /\ code \in TagInputs \cup AttachInputs
    /\ pos = 1
    /\ full_comment = <<>>
    /\ docs = <<>>
    /\ epc = "scan"
    /\ RunIdle

\* one iteration of `for match in pattern.finditer(code)`
MatchNext ==
    /\ epc = "scan"
    /\ search(code, pos).ok
    /\ full_comment' = strip(search(code, pos).body, Space)
    /\ docs' = Append(docs, Record(search(code, pos)))
    /\ pos' = search(code, pos).end
    /\ UNCHANGED <<code, epc>>
    /\ UNCHANGED rvars

\* finditer is exhausted: return docs
ReturnDocs ==
    /\ epc = "scan"
    /\ ~search(code, pos).ok
    /\ epc' = "done"
    /\ UNCHANGED <<code, pos, full_comment, docs>>
    /\ UNCHANGED rvars

NextExtract == MatchNext \/ ReturnDocs

SpecExtract == InitExtract /\ [][NextExtract]_vars

----------------------------------------------------------------------------
(* generate_docs_for_dir *)

ExtractIdle ==
    /\ code = <<>> /\ pos = 0 /\ full_comment = <<>> /\ docs = <<>> /\ epc = "idle"

\* ignore_dirs_abs of the main program
ignore_dirs_abs == { resolve(SrcDir \o d) : d \in ignore }

\* the filter, were it to test the bare directory name instead of root/d
IgnoredBareName(top, d) ==
    \E ignored \in ignore_dirs_abs : is_relative_to(resolve(<<d>>), ignored)

\* the test of the filter on dirs[:]
Ignored(top, d) ==
    \E ignored \in ignore_dirs_abs : is_relative_to(resolve(Append(top, d)), ignored)

Perms(S) == { s \in [1..Cardinality(S) -> S] : { s[k] : k \in 1..Len(s) } = S }

\* the test, were the `continue` never taken
UndocumentedNever(ds) == FALSE

Undocumented(ds) == ds = <<>>

rel_folder == SubSeq(root, Len(SrcDir) + 1, Len(root))

html_path(file) == OutDir \o rel_folder \o <<replace(file)>>

Put(f, k, v) == [x \in DOMAIN f \cup {k} |-> IF x = k THEN v ELSE f[x]]

\* the index page, were it rendered with the default empty sidebar
IndexPageNoSidebar ==
    generate_html(<<>>, <<"Index">>, <<>>, IndexPath)

IndexPage ==
    generate_html(<<>>, <<"Index">>, render_tree(docs_dict, IndexPath, <<>>, 0), IndexPath)

InitRun ==
    /\ kind \in [OdinFiles -> Kinds]
    /\ ignore \in {{}} \cup { {d} : d \in IgnoreArgs }
    /\ run = 1
    /\ pc = "walk"
    /\ stack = <<SrcDir>>
    /\ root = <<>>
    /\ files = {}
    /\ visited = {}
    /\ docs_dict = <<>>
    /\ out = <<>>
    /\ stdout = <<>>
    /\ firstOut = <<>>
    /\ ExtractIdle

\* os.walk yields the next directory, top-down, its entries in any order;
\* the loop body filters dirs in place
WalkDir ==
    /\ pc = "walk" /\ files = {} /\ stack # <<>>
    /\ LET top == Head(stack)
           dirs == { d \in SrcTree[top].dirs : ~Ignored(top, d) }
       IN  /\ root' = top
           /\ files' = SrcTree[top].files
           /\ visited' = visited \cup {top}
           /\ \E order \in Perms(dirs) :
                 stack' = [k \in 1..Len(order) |-> Append(top, order[k])] \o Tail(stack)
    /\ UNCHANGED <<kind, ignore, run, pc, docs_dict, out, stdout, firstOut>>
    /\ UNCHANGED evars

\* a file that does not end with ".odin"
SkipOther ==
    /\ pc = "walk"
    /\ \E file \in files :
          /\ ~endswith(file, ".odin")
          /\ files' = files \ {file}
    /\ UNCHANGED <<kind, ignore, run, pc, stack, root, visited, docs_dict, out,
                   stdout, firstOut>>
    /\ UNCHANGED evars

\* read_text raises UnicodeDecodeError; nothing catches it
ReadFails ==
    /\ pc = "walk"
    /\ \E file \in files :
          /\ endswith(file, ".odin")
          /\ kind[Append(root, file)] = "binary"
    /\ pc' = "crashed"
    /\ UNCHANGED <<kind, ignore, run, stack, root, files, visited, docs_dict, out,
                   stdout, firstOut>>
    /\ UNCHANGED evars

\* `if not docs: continue`
SkipUndocumented ==
    /\ pc = "walk"
    /\ \E file \in files :
          /\ endswith(file, ".odin")
          /\ kind[Append(root, file)] # "binary"
          /\ Undocumented(extract_docs(FileText(kind[Append(root, file)])))
          /\ files' = files \ {file}
    /\ UNCHANGED <<kind, ignore, run, pc, stack, root, visited, docs_dict, out,
                   stdout, firstOut>>
    /\ UNCHANGED evars

\* a documented file: insert its leaf, render the sidebar, write the page
WritePage ==
    /\ pc = "walk"
    /\ \E file \in files :
          /\ endswith(file, ".odin")
          /\ kind[Append(root, file)] # "binary"
          /\ LET ds == extract_docs(FileText(kind[Append(root, file)]))
                 d == Put(docs_dict, Append(rel_folder, file), resolve(html_path(file)))
                 sidebar_html == render_tree(d, html_path(file), <<>>, 0)
             IN  /\ ~Undocumented(ds)
                 /\ docs_dict' = d
                 /\ out' = Put(out, html_path(file),
                               generate_html(ds, file, sidebar_html, html_path(file)))
                 /\ stdout' = Append(stdout, <<"Generated", html_path(file)>>)
          /\ files' = files \ {file}
    /\ UNCHANGED <<kind, ignore, run, pc, stack, root, visited, firstOut>>
    /\ UNCHANGED evars

\* the walk is over: write index.html
WriteIndex ==
    /\ pc = "walk" /\ files = {} /\ stack = <<>>
    /\ out' = Put(out, IndexPath, IndexPage)
    /\ stdout' = Append(stdout, <<"Generated index file at", IndexPath>>)
    /\ pc' = "done"
    /\ UNCHANGED <<kind, ignore, run, stack, root, files, visited, docs_dict, firstOut>>
    /\ UNCHANGED evars

\* the generator is run again on the unchanged tree, into a fresh output
\* directory
Rerun ==
    /\ pc = "done" /\ run < MaxRuns
    /\ firstOut' = out
    /\ run' = run + 1
    /\ pc' = "walk"
    /\ stack' = <<SrcDir>>
    /\ root' = <<>>
    /\ files' = {}
    /\ visited' = {}
    /\ docs_dict' = <<>>
    /\ out' = <<>>
    /\ stdout' = <<>>
    /\ UNCHANGED <<kind, ignore>>
    /\ UNCHANGED evars

Next ==
    \/ WalkDir
    \/ SkipOther
    \/ ReadFails
    \/ SkipUndocumented
    \/ WritePage
    \/ WriteIndex
    \/ Rerun

Spec == InitRun /\ [][Next]_vars

----------------------------------------------------------------------------
(* Vocabulary of the properties *)

Last(s) == s[Len(s)]

\* f yields at least one record
Documented(f) == kind[f] # "binary" /\ extract_docs(FileText(kind[f])) # <<>>

\* f is readable and yields no record
Empty(f) == kind[f] # "binary" /\ extract_docs(FileText(kind[f])) = <<>>

\* no directory on the way from src_dir down to f lies under an ignored path
InScope(f) ==
    \A k \in (Len(SrcDir) + 1)..(Len(f) - 1) :
        \A d \in ignore : ~is_relative_to(SubSeq(f, 1, k), resolve(SrcDir \o d))

DocumentedFiles == { f \in OdinFiles : InScope(f) /\ Documented(f) }

KeyOf(f) == SubSeq(f, Len(SrcDir) + 1, Len(f))

\* the mirrored output path of source file f
PageOf(f) ==
    OutDir \o SubSeq(f, Len(SrcDir) + 1, Len(f) - 1) \o <<replace(Last(f))>>

\* the files the sidebar of the page at p links to
LinkTargets(p) ==
    { resolve(parent(p) \o out[p].nav[k].href) :
        k \in { j \in 1..Len(out[p].nav) : out[p].nav[j].tag = "file" } }

\* the folders of a rendered sidebar, each with its path and its state
RECURSIVE Folders(_, _, _)
Folders(nav, k, at) ==
    IF k > Len(nav) THEN {}
    ELSE IF nav[k].tag = "details"
         THEN {[path |-> Append(at, nav[k].text), open |-> nav[k].open]}
              \cup Folders(nav, k + 1, Append(at, nav[k].text))
    ELSE IF nav[k].tag = "/details" THEN Folders(nav, k + 1, parent(at))
    ELSE Folders(nav, k + 1, at)

HasTerminator(s) == \E k \in 1..(Len(s) - 1) : s[k] = "*" /\ s[k + 1] = "/"

ParamLines(comment) ==
    SelectSeq(StripLines(comment), LAMBDA l : startswith(l, "@param"))

----------------------------------------------------------------------------
(* Properties *)

\* C1: when a run has completed, the sidebar of every page in the output
\* directory links to the page of every documented file of the run.
C1_SidebarComplete ==
    pc = "done" =>
        \A p \in DOMAIN out : LinkTargets(p) = { PageOf(f) : f \in DocumentedFiles }

\* C2 as stated: with --ignore <name>, no directory of that name at any depth
\* is walked, and no page or sidebar leaf lies under any directory of that name.
C2_IgnoreByName ==
    \A d \in { i \in ignore : Len(i) = 1 } :
        /\ \A v \in visited : \A k \in (Len(SrcDir) + 1)..Len(v) : v[k] # d[1]
        /\ \A p \in DOMAIN out : \A k \in 1..Len(p) : p[k] # d[1]
        /\ \A l \in DOMAIN docs_dict : \A k \in 1..Len(l) : l[k] # d[1]

\* C2 amended: with --ignore <path relative to src_dir>, the directory
\* src_dir/<path> is never walked, nor any directory below it, and no page,
\* sidebar leaf or sidebar link lies under its mirrored output directory.
C2_IgnoreByPath ==
    \A d \in ignore :
        /\ \A v \in visited : ~is_relative_to(v, resolve(SrcDir \o d))
        /\ \A p \in DOMAIN out :
              /\ ~is_relative_to(p, resolve(OutDir \o d))
              /\ \A t \in LinkTargets(p) : ~is_relative_to(t, resolve(OutDir \o d))
        /\ \A l \in DOMAIN docs_dict : ~is_relative_to(l, resolve(d))

C2_Witness ==
    /\ pc = "done"
    /\ ignore = {<<Build>>}
    /\ kind[SrcDir \o <<Build, <<"b", ".odin">>>>] = "docs"
    /\ SrcDir \o <<Sub, Build>> \in visited
    /\ PageOf(SrcDir \o <<Sub, Build, <<"d", ".odin">>>>) \in DOMAIN out

\* C3: when some file in the walk cannot be decoded, the run still ends
\* normally: the file has no leaf, every documented file has its page and
\* index.html is written.
C3_UnreadableSkipped ==
    (pc \in {"done", "crashed"} /\ \E f \in OdinFiles : InScope(f) /\ kind[f] = "binary") =>
        /\ pc = "done"
        /\ IndexPath \in DOMAIN out
        /\ \A f \in DocumentedFiles : PageOf(f) \in DOMAIN out
        /\ \A f \in OdinFiles : kind[f] = "binary" => KeyOf(f) \notin DOMAIN docs_dict

\* C4: when a run has completed, every documented file has its own page at
\* its mirrored path (titled with its name, holding its sections) and its
\* leaf in the tree.
C4_OnePagePerFile ==
    pc = "done" =>
        \A f \in DocumentedFiles :
            /\ PageOf(f) \in DOMAIN out
            /\ out[PageOf(f)].title = Last(f)
            /\ out[PageOf(f)].sections # <<>>
            /\ KeyOf(f) \in DOMAIN docs_dict

\* C5: a second run over the unchanged tree leaves exactly the output of the
\* first run, whatever order the two walks enumerated the entries in.
C5_Deterministic ==
    (run > 1 /\ pc = "done") => out = firstOut

\* C6: a readable file that yields no record has no leaf in the tree, no page
\* of its own at its mirrored path, and no sidebar of any page links to it.
C6_NoEmptyPages ==
    \A f \in { g \in OdinFiles : Empty(g) } :
        /\ KeyOf(f) \notin DOMAIN docs_dict
        /\ \A p \in DOMAIN out :
              /\ ~(p = PageOf(f) /\ out[p].title = Last(f))
              /\ PageOf(f) \notin LinkTargets(p)

C6_Witness ==
    /\ pc = "done"
    /\ Empty(SrcDir \o <<Sub, <<"c", ".odin">>>>)
    /\ Empty(SrcDir \o <<<<"index", ".odin">>>>)
    /\ SrcDir \o <<Sub>> \in visited
    /\ PageOf(SrcDir \o <<Sub, Build, <<"d", ".odin">>>>) \in DOMAIN out

\* C7: when a run has completed, index.html is the last file written, after
\* the page of every documented file; it has no section and its sidebar
\* links to exactly the pages of the documented files.
C7_IndexPage ==
    pc = "done" =>
        /\ IndexPath \in DOMAIN out
        /\ out[IndexPath].title = <<"Index">>
        /\ out[IndexPath].sections = <<>>
        /\ LinkTargets(IndexPath) = { PageOf(f) : f \in DocumentedFiles }
        /\ Last(stdout) = <<"Generated index file at", IndexPath>>
        /\ \A f \in DocumentedFiles :
              \E k \in 1..(Len(stdout) - 1) : stdout[k] = <<"Generated", PageOf(f)>>
        /\ \A k \in 1..(Len(stdout) - 1) : stdout[k][1] = "Generated"

C7_Witness ==
    /\ pc = "done"
    /\ Cardinality(DocumentedFiles) >= 3
    /\ \E f \in DocumentedFiles : Len(KeyOf(f)) = 3

\* C8: in the sidebar of every written page, a folder is open exactly when
\* the page lies in the output directory that mirrors that folder.
C8_FolderExpansion ==
    \A p \in DOMAIN out :
        \A e \in Folders(out[p].nav, 1, <<>>) :
            e.open <=> (Len(p) > Len(OutDir \o e.path) /\ is_relative_to(p, OutDir \o e.path))

C8_Witness ==
    \E p \in DOMAIN out :
        /\ [path |-> <<Sub>>, open |-> TRUE] \in Folders(out[p].nav, 1, <<>>)
        /\ [path |-> <<Sub, Build>>, open |-> TRUE] \in Folders(out[p].nav, 1, <<>>)
        /\ [path |-> <<Build>>, open |-> FALSE] \in Folders(out[p].nav, 1, <<>>)

\* C9: the params of a record hold one entry per line of its comment that
\* starts with @param, in the order of those lines, each being the entry that
\* line yields on its own.
C9_ParamOrder ==
    docs # <<>> =>
        LET ps == ParamLines(full_comment)
            params == Last(docs).params
        IN  /\ Len(params) = Len(ps)
            /\ \A k \in 1..Len(ps) : params[k] = TagLine(Tags0, ps[k]).params[1]

C9_Witness ==
    /\ epc = "done"
    /\ Len(docs) = 1
    /\ Len(docs[1].params) = 2
    /\ docs[1].params[1] = docs[1].params[2]
    /\ docs[1].return # <<>>

\* C10: the comment text a record is built from lies within one block
\* comment: it holds no comment terminator.
C10_SingleComment ==
    ~HasTerminator(full_comment)

====
